---------------------------- MODULE Spec2Model ----------------------------
(***************************************************************************)
(* Model of file_automation.py: the category resolver (get_category), the  *)
(* conflict-safe mover (move_file), the log set-up (setup_logging) and the *)
(* directory organizer (organize_directory).                               *)
(*                                                                         *)
(* A file name is a sequence of one-character strings, so that suffix,     *)
(* stem, lower() and the "_<counter>" renaming are computed on characters. *)
(* A directory is a function from the names it holds to nodes.             *)
(***************************************************************************)
EXTENDS Integers, Sequences, FiniteSets, TLC

VARIABLES
    root,       \* what the target path resolves to: "dir", "file" or "missing"
    top,        \* the target directory: name -> node
    logfiles,   \* <target>/logs/file_organizer_<ts>.log: ts -> sequence of events
    handler,    \* the root logger's file handler of this process: <<>> or <<ts>>
    now,        \* the second datetime.now() gave at its latest reading
    pc,         \* "idle", "scan" (inside the for loop), "done", "failed"
    dry,        \* the dry_run argument of the current invocation
    todo,       \* entries of the iterdir() listing not yet visited
    runId,      \* number of invocations of organize_directory so far
    err,        \* the exception the current invocation raised, or "none"
    top0,       \* top when the current invocation was entered
    logfiles0,  \* logfiles when the current invocation was entered
    rerun,      \* the invocation directly follows a completed normal run
    lastMove,   \* arguments and result of the latest move_file call
    ext,        \* argument of the latest get_category call
    cat         \* result of the latest get_category call

vars == <<root, top, logfiles, handler, now, pc, dry, todo, runId, err,
          top0, logfiles0, rerun, lastMove, ext, cat>>

-----------------------------------------------------------------------------
(* Bounds of the model.                                                    *)

\* most regular files at the top level of the target initially
MaxTop == 3
\* most invocations of organize_directory in one behaviour
MaxRuns == 2
\* longest arbitrary extension string handed to get_category
MaxExtLen == 3
\* most consecutive "_k" names already taken in a destination folder
MaxFill == 10

-----------------------------------------------------------------------------
(* Characters and strings.                                                 *)

Upper == <<"A","B","C","D","E","F","G","H","I","J","K","L","M",
           "N","O","P","Q","R","S","T","U","V","W","X","Y","Z">>
Lower == <<"a","b","c","d","e","f","g","h","i","j","k","l","m",
           "n","o","p","q","r","s","t","u","v","w","x","y","z">>
Digits == <<"0","1","2","3","4","5","6","7","8","9">>

Range(s) == {s[i] : i \in DOMAIN s}

\* str.lower() on one character
LowerChar(c) ==
    IF c \in Range(Upper)
    THEN Lower[CHOOSE i \in DOMAIN Upper : Upper[i] = c]
    ELSE c

\* str.lower()
lower(s) == [i \in DOMAIN s |-> LowerChar(s[i])]

\* str.upper() on one character, used to build mixed-case inputs
UpperChar(c) ==
    IF c \in Range(Lower)
    THEN Upper[CHOOSE i \in DOMAIN Lower : Lower[i] = c]
    ELSE c

\* f"{counter}": the decimal rendering of a natural number
RECURSIVE Str(_)
Str(n) ==
    IF n < 10 THEN <<Digits[n + 1]>>
    ELSE Str(n \div 10) \o <<Digits[(n % 10) + 1]>>

\* str.rfind('.') : the last index of a dot, 0 when there is none
RFindDot(name) ==
    IF \E i \in DOMAIN name : name[i] = "."
    THEN CHOOSE i \in DOMAIN name :
            name[i] = "." /\ \A j \in DOMAIN name : name[j] = "." => j <= i
    ELSE 0

\* PurePath.suffix: the last dot-component, unless the dot is the first or
\* the last character of the name
HasSuffix(name) == 1 < RFindDot(name) /\ RFindDot(name) < Len(name)

suffix(name) ==
    IF HasSuffix(name) THEN SubSeq(name, RFindDot(name), Len(name)) ELSE <<>>

\* PurePath.stem: the name without its suffix
stem(name) ==
    IF HasSuffix(name) THEN SubSeq(name, 1, RFindDot(name) - 1) ELSE name

-----------------------------------------------------------------------------
(* Configuration: FILE_TYPES, in the dict's insertion order.               *)

Images        == <<"I","m","a","g","e","s">>
Documents     == <<"D","o","c","u","m","e","n","t","s">>
Spreadsheets  == <<"S","p","r","e","a","d","s","h","e","e","t","s">>
Presentations == <<"P","r","e","s","e","n","t","a","t","i","o","n","s">>
Videos        == <<"V","i","d","e","o","s">>
Audio         == <<"A","u","d","i","o">>
Archives      == <<"A","r","c","h","i","v","e","s">>
Code          == <<"C","o","d","e">>
Others        == <<"O","t","h","e","r","s">>

FILE_TYPES == <<
    [category |-> Images, exts |-> <<
        <<".","j","p","g">>, <<".","j","p","e","g">>, <<".","p","n","g">>,
        <<".","g","i","f">>, <<".","b","m","p">>, <<".","t","i","f","f">>,
        <<".","w","e","b","p">> >>],
    [category |-> Documents, exts |-> <<
        <<".","p","d","f">>, <<".","d","o","c">>, <<".","d","o","c","x">>,
        <<".","t","x","t">>, <<".","r","t","f">>, <<".","o","d","t">> >>],
    [category |-> Spreadsheets, exts |-> <<
        <<".","x","l","s">>, <<".","x","l","s","x">>, <<".","c","s","v">>,
        <<".","o","d","s">> >>],
    [category |-> Presentations, exts |-> <<
        <<".","p","p","t">>, <<".","p","p","t","x">>, <<".","o","d","p">> >>],
    [category |-> Videos, exts |-> <<
        <<".","m","p","4">>, <<".","m","k","v">>, <<".","m","o","v">>,
        <<".","a","v","i">>, <<".","f","l","v">>, <<".","w","m","v">> >>],
    [category |-> Audio, exts |-> <<
        <<".","m","p","3">>, <<".","w","a","v">>, <<".","a","a","c">>,
        <<".","f","l","a","c">>, <<".","o","g","g">>, <<".","m","4","a">> >>],
    [category |-> Archives, exts |-> <<
        <<".","z","i","p">>, <<".","r","a","r">>, <<".","7","z">>,
        <<".","t","a","r">>, <<".","g","z">> >>],
    [category |-> Code, exts |-> <<
        <<".","p","y">>, <<".","j","s">>, <<".","t","s">>,
        <<".","h","t","m","l">>, <<".","c","s","s">>, <<".","j","a","v","a">>,
        <<".","c">>, <<".","c","p","p">> >>],
    [category |-> Others, exts |-> << >>]
>>

Categories == {FILE_TYPES[i].category : i \in DOMAIN FILE_TYPES}

\* get_category without the lower(): a case-sensitive look-up
get_category_cased(extension) ==
    LET hit(i) == FILE_TYPES[i].exts # << >>
                  /\ extension \in Range(FILE_TYPES[i].exts)
    IN  IF \E i \in DOMAIN FILE_TYPES : hit(i)
        THEN FILE_TYPES[CHOOSE i \in DOMAIN FILE_TYPES :
                 hit(i) /\ \A j \in DOMAIN FILE_TYPES : hit(j) => i <= j].category
        ELSE Others

\* get_category: the first entry of FILE_TYPES, in order, whose non-empty
\* list holds the lowered extension; "Others" when the loop falls through
get_category(extension) ==
    LET e == lower(extension)
        hit(i) == FILE_TYPES[i].exts # << >> /\ e \in Range(FILE_TYPES[i].exts)
    IN  IF \E i \in DOMAIN FILE_TYPES : hit(i)
        THEN FILE_TYPES[CHOOSE i \in DOMAIN FILE_TYPES :
                 hit(i) /\ \A j \in DOMAIN FILE_TYPES : hit(j) => i <= j].category
        ELSE Others

-----------------------------------------------------------------------------
(* The file system under the target directory.                             *)
(*                                                                         *)
(* A node is a regular file (with the identity of its content), a          *)
(* directory (with the nodes it holds) or something else that exists but   *)
(* is neither (a FIFO, a socket, a device).                                *)
(* Symbolic links are not modelled, and every folder is on the file system *)
(* of the target, so that shutil.move is one os.rename.                    *)
(* The log files of <target>/logs are kept apart, in logfiles.             *)

NoKids == [n \in {} |-> 0]

File(id)  == [kind |-> "file",  id |-> id,    kids |-> NoKids]
Dir(kids) == [kind |-> "dir",   id |-> << >>, kids |-> kids]
Special   == [kind |-> "other", id |-> << >>, kids |-> NoKids]

\* "logs", the fixed name of the log folder
Logs == <<"l","o","g","s">>

\* Path.is_dir() / Path.is_file() of <target>/<name>
is_dir(t, name)  == name \in DOMAIN t /\ t[name].kind = "dir"
is_file(t, name) == name \in DOMAIN t /\ t[name].kind = "file"

\* no check of the target at all
TargetUnchecked(kind) == TRUE

\* base_path.is_dir() on the resolved target
TargetValid(kind) == kind = "dir"

\* Path.mkdir(exist_ok=True) of <target>/<d>, parents not created. fault
\* "mkdir" is the operating system refusing the creation.
mkdir(rootKind, t, d, fault) ==
    IF rootKind = "missing" THEN [err |-> "FileNotFoundError", top |-> t]
    ELSE IF rootKind # "dir" THEN [err |-> "NotADirectoryError", top |-> t]
    ELSE IF d \in DOMAIN t
    THEN IF t[d].kind = "dir"
         THEN [err |-> "none", top |-> t]
         ELSE [err |-> "FileExistsError", top |-> t]
    ELSE IF fault = "mkdir"
    THEN [err |-> "OSError", top |-> t]
    ELSE [err |-> "none", top |-> [n \in DOMAIN t \cup {d} |->
                                      IF n = d THEN Dir(NoKids) ELSE t[n]]]

\* f"{stem}_{counter}{suffix}"
new_name(st, counter, su) == st \o <<"_">> \o Str(counter) \o su

\* the while loop of move_file, entered with the given counter
RECURSIVE free_counter_from(_, _, _, _)
free_counter_from(names, st, su, counter) ==
    IF new_name(st, counter, su) \notin names THEN counter
    ELSE free_counter_from(names, st, su, counter + 1)

\* the while loop that never retries: the counter stays 1
first_counter_only(names, st, su) == 1

\* the while loop of move_file: counter = 1, 2, ... until the name is free
free_counter(names, st, su) == free_counter_from(names, st, su, 1)

\* the destination without the existence check: always <dest_dir>/<name>
dest_name_unchecked(names, name) == name

\* the name move_file gives the file inside dest_dir, whose entries are names
dest_name(names, name) ==
    IF name \notin names THEN name
    ELSE new_name(stem(name), free_counter(names, stem(name), suffix(name)),
                  suffix(name))

\* a copy in place of a move: the source stays where it was
rename_keeps_source(t, src, dest, final) ==
    [n \in DOMAIN t |->
        IF n = dest
        THEN Dir([k \in DOMAIN t[dest].kids \cup {final} |->
                     IF k = final THEN t[src] ELSE t[dest].kids[k]])
        ELSE t[n]]

\* os.rename(<target>/<src>, <target>/<dest>/<final>): the node leaves the top
\* level and takes the place of whatever held the final name
rename(t, src, dest, final) ==
    [n \in DOMAIN t \ {src} |->
        IF n = dest
        THEN Dir([k \in DOMAIN t[dest].kids \cup {final} |->
                     IF k = final THEN t[src] ELSE t[dest].kids[k]])
        ELSE t[n]]

\* a failed shutil.move that has already unlinked the source
move_fault_loses(t, src) == [n \in DOMAIN t \ {src} |-> t[n]]

\* what a failed shutil.move leaves behind: os.rename fails without effect
move_fault(t, src) == t

\* move_file(<target>/<src>, <target>/<dest>). fault "move" is the operating
\* system refusing the rename.
move_file(t, src, dest, fault) ==
    LET mk == mkdir("dir", t, dest, fault)
    IN  IF mk.err # "none"
        THEN [err |-> mk.err, top |-> mk.top, ret |-> << >>]
        ELSE IF src = dest \/ src \notin DOMAIN mk.top
        THEN [err |-> "shutil.Error", top |-> mk.top, ret |-> << >>]
        ELSE IF fault = "move"
        THEN [err |-> "OSError", top |-> move_fault(mk.top, src), ret |-> << >>]
        ELSE LET final == dest_name(DOMAIN mk.top[dest].kids, src)
             IN  [err |-> "none", top |-> rename(mk.top, src, dest, final),
                  ret |-> final]

-----------------------------------------------------------------------------
(* Logging.                                                                *)

\* a log record: the invocation that wrote it and which of the four
\* messages it is ("Started", "DryRun", "Moved", "Finished")
Event(run, kind) == [run |-> run, kind |-> kind]

\* logging.info(...): the record goes to the root logger's handler
emit(lf, h, ev) ==
    IF h = << >> THEN lf ELSE [lf EXCEPT ![h[1]] = Append(@, ev)]

\* logging.basicConfig(filename=log_file, ...): does nothing when the root
\* logger already has a handler; otherwise opens log_file for appending
basicConfig(lf, h, ts) ==
    IF h # << >> THEN [handler |-> h, logfiles |-> lf]
    ELSE [handler |-> <<ts>>,
          logfiles |-> IF ts \in DOMAIN lf THEN lf ELSE lf @@ (ts :> << >>)]

\* setup_logging(base_dir): the log file is named by the second of the call
setup_logging(rootKind, t, lf, h, clock, run, fault) ==
    LET mk == mkdir(rootKind, t, Logs, fault)
        bc == basicConfig(lf, h, clock)
    IN  IF mk.err # "none"
        THEN [err |-> mk.err, top |-> mk.top, logfiles |-> lf, handler |-> h]
        ELSE [err |-> "none", top |-> mk.top, handler |-> bc.handler,
              logfiles |-> emit(bc.logfiles, bc.handler,
                                Event(run, "Started"))]

-----------------------------------------------------------------------------
(* organize_directory, one step per loop iteration.                        *)

Faults == {"none", "mkdir", "move"}

NoMove == [called |-> FALSE, src |-> << >>, dest |-> << >>,
           before |-> NoKids, ret |-> << >>, err |-> "none"]

\* an entry filter that lets directories through
skipped_unless_exists(t, e) == e \notin DOMAIN t

\* an entry filter that also passes over files without an extension
skipped_without_suffix(t, e) == is_dir(t, e) \/ ~is_file(t, e) \/ suffix(e) = << >>

\* the two "continue" tests of the loop: entry.is_dir(), not entry.is_file()
skipped(t, e) == is_dir(t, e) \/ ~is_file(t, e)

\* a dry_run flag that is ignored
mutates_always(d) == TRUE

\* whether the loop body reaches move_file
mutates(d) == ~d

\* lines 73-80: validate the target, set up logging, list the directory.
\* tick: datetime.now() falls in a later second than at its latest reading
Begin(d, fault, tick) ==
    /\ pc # "scan"
    /\ runId < MaxRuns
    /\ runId' = runId + 1
    /\ now' = IF tick THEN now + 1 ELSE now
    /\ dry' = d
    /\ top0' = top
    /\ logfiles0' = logfiles
    /\ rerun' = (pc = "done" /\ ~dry /\ ~d)
    /\ IF ~TargetValid(root)
       THEN /\ pc' = "failed"
            /\ err' = "NotADirectoryError"
            /\ todo' = {}
            /\ UNCHANGED <<top, logfiles, handler>>
       ELSE LET r == setup_logging(root, top, logfiles, handler, now',
                                   runId + 1, fault)
            IN  /\ top' = r.top
                /\ logfiles' = r.logfiles
                /\ handler' = r.handler
                /\ err' = r.err
                /\ pc' = IF r.err = "none" THEN "scan" ELSE "failed"
                /\ todo' = IF r.err = "none" THEN DOMAIN r.top ELSE {}
    /\ UNCHANGED <<root, lastMove, ext, cat>>

\* lines 80-100: one iteration of the for loop, on entry e
Step(e, fault) ==
    /\ pc = "scan"
    /\ e \in todo
    /\ todo' = todo \ {e}
    /\ IF skipped(top, e)
       THEN UNCHANGED <<top, logfiles, pc, err, lastMove, ext, cat>>
       ELSE LET x == suffix(e)
                c == get_category(x)
            IN  /\ ext' = x
                /\ cat' = c
                /\ IF ~mutates(dry)
                   THEN /\ logfiles' = emit(logfiles, handler,
                                            Event(runId, "DryRun"))
                        /\ UNCHANGED <<top, pc, err, lastMove>>
                   ELSE LET m == move_file(top, e, c, fault)
                        IN  /\ top' = m.top
                            /\ lastMove' = [called |-> TRUE, src |-> e,
                                            dest |-> c, before |-> top,
                                            ret |-> m.ret, err |-> m.err]
                            /\ err' = m.err
                            /\ pc' = IF m.err = "none" THEN "scan" ELSE "failed"
                            /\ logfiles' =
                                 IF m.err = "none"
                                 THEN emit(logfiles, handler,
                                           Event(runId, "Moved"))
                                 ELSE logfiles
    /\ UNCHANGED <<root, handler, now, dry, runId, top0, logfiles0, rerun>>

\* lines 102-103: the loop is over
Finish ==
    /\ pc = "scan"
    /\ todo = {}
    /\ logfiles' = emit(logfiles, handler, Event(runId, "Finished"))
    /\ pc' = "done"
    /\ UNCHANGED <<root, top, handler, now, dry, todo, runId, err, top0,
                   logfiles0, rerun, lastMove, ext, cat>>

\* the interpreter exits and a new one starts: the logging configuration of
\* the process is gone, the file system stays
NewProcess ==
    /\ pc # "scan"
    /\ handler # << >>
    /\ handler' = << >>
    /\ UNCHANGED <<root, top, logfiles, now, pc, dry, todo, runId, err,
                   top0, logfiles0, rerun, lastMove, ext, cat>>

-----------------------------------------------------------------------------
(* Initial file systems.                                                   *)

a_jpg   == <<"a",".","j","p","g">>
a_JPG   == <<"a",".","J","P","G">>
a_1_jpg == <<"a","_","1",".","j","p","g">>
b_txt   == <<"b",".","t","x","t">>
c_noext == <<"c">>
d_dir   == <<"d">>
p_fifo  == <<"p">>

\* names a top-level regular file may have initially
TopFileNames == {a_jpg, a_JPG, a_1_jpg, b_txt, c_noext, Images, Logs}

\* what <target>/Images may hold initially
ImagesKids == {
    NoKids,
    (a_jpg :> File(<<Images, a_jpg>>)),
    (a_jpg :> Dir(NoKids)),
    (a_1_jpg :> File(<<Images, a_1_jpg>>)),
    (a_jpg :> File(<<Images, a_jpg>>)) @@ (a_1_jpg :> File(<<Images, a_1_jpg>>)) }

\* directories and special files at the top level initially
TopDirs == {
    NoKids,
    (Logs :> Dir(NoKids)) @@ (d_dir :> Dir(c_noext :> File(<<d_dir, c_noext>>)))
        @@ (p_fifo :> Special) }
    \cup {(Images :> Dir(k)) : k \in ImagesKids}
    \cup {(Images :> Dir(k)) @@ (Others :> Dir(d_dir :> Dir(NoKids)))
             @@ (Logs :> Dir(NoKids)) : k \in ImagesKids}

TopFiles == {[n \in F |-> File(<<<< >>, n>>)] :
                F \in {G \in SUBSET TopFileNames : Cardinality(G) <= MaxTop}}

InitTops == {f @@ d : f \in TopFiles, d \in {e \in TopDirs :
                                        DOMAIN e \cap TopFileNames = {}}}
            \cup {f @@ d : f \in {g \in TopFiles : DOMAIN g \cap {Images, Logs} = {}},
                           d \in TopDirs}

\* the state before the first call, on a target of kind k holding t; mv
\* holds the arguments of a direct move_file call, if one is to be made
Start(k, t, mv) ==
    /\ root = k
    /\ top = t
    /\ logfiles = NoKids
    /\ handler = << >>
    /\ now = 0
    /\ pc = "idle"
    /\ dry = FALSE
    /\ todo = {}
    /\ runId = 0
    /\ err = "none"
    /\ top0 = t
    /\ logfiles0 = NoKids
    /\ rerun = FALSE
    /\ lastMove = mv
    /\ ext = << >>
    /\ cat = << >>

\* file systems for sequences of invocations
RerunTops == {
    [n \in {a_jpg, b_txt, c_noext} |-> File(<<<< >>, n>>)],
    [n \in {a_jpg, a_1_jpg} |-> File(<<<< >>, n>>)]
        @@ (Images :> Dir(a_jpg :> File(<<Images, a_jpg>>))),
    [n \in {a_JPG, b_txt} |-> File(<<<< >>, n>>)] @@ (p_fifo :> Special),
    (c_noext :> File(<<<< >>, c_noext>>)),
    (Images :> Dir(a_jpg :> File(<<Images, a_jpg>>)))
        @@ (d_dir :> Dir(c_noext :> File(<<d_dir, c_noext>>))),
    [n \in {a_jpg, Images} |-> File(<<<< >>, n>>)],
    (c_noext :> File(<<<< >>, c_noext>>)) @@ (Logs :> Dir(NoKids))
        @@ (Others :> Dir((c_noext :> Dir(NoKids))
                          @@ (d_dir :> File(<<Others, d_dir>>)))) }

Init == \E t \in RerunTops : Start("dir", t, NoMove)

\* any number of invocations, in one process or in several, on an operating
\* system that refuses nothing (a run still fails where a regular file holds
\* the name of a folder it needs)
Next ==
    \/ \E d \in BOOLEAN, tick \in BOOLEAN : Begin(d, "none", tick)
    \/ \E e \in todo : Step(e, "none")
    \/ Finish
    \/ NewProcess

Spec == Init /\ [][Next]_vars

\* one invocation, as the command line makes it, on any of the file systems
InitRun ==
    \/ \E t \in InitTops : Start("dir", t, NoMove)
    \/ \E k \in {"file", "missing"} : Start(k, NoKids, NoMove)

NextRun ==
    \/ \E d \in BOOLEAN, fault \in Faults : pc = "idle" /\ Begin(d, fault, FALSE)
    \/ \E e \in todo, fault \in Faults : Step(e, fault)
    \/ Finish

SpecRun == InitRun /\ [][NextRun]_vars

-----------------------------------------------------------------------------
(* get_category on its own: any extension string may be handed to it.      *)

\* every spelling of s in upper and lower case
RECURSIVE CaseVariants(_)
CaseVariants(s) ==
    IF s = << >> THEN {<< >>}
    ELSE {<<c>> \o r : c \in {LowerChar(Head(s)), UpperChar(Head(s))},
                       r \in CaseVariants(Tail(s))}

\* every string over the alphabet of length n
RECURSIVE Strings(_, _)
Strings(alphabet, n) ==
    IF n = 0 THEN {<< >>}
    ELSE {<<c>> \o r : c \in alphabet, r \in Strings(alphabet, n - 1)}

TableExts == UNION {Range(FILE_TYPES[i].exts) : i \in DOMAIN FILE_TYPES}

\* the extensions tried: the table's in every case, and every short string
\* over a few characters (the empty string among them)
ExtInputs ==
    UNION {CaseVariants(e) : e \in TableExts}
    \cup UNION {Strings({".", "c", "C", "7", "z"}, n) : n \in 0..MaxExtLen}

\* one call get_category(e)
Resolve(e) ==
    /\ cat = << >>
    /\ ext' = e
    /\ cat' = get_category(e)
    /\ UNCHANGED <<root, top, logfiles, handler, now, pc, dry, todo, runId,
                   err, top0, logfiles0, rerun, lastMove>>

InitCat == Start("dir", NoKids, NoMove)

NextCat == \E e \in ExtInputs : Resolve(e)

SpecCat == InitCat /\ [][NextCat]_vars

-----------------------------------------------------------------------------
(* move_file on its own: any source name against any state of dest_dir.    *)

rc_dot   == <<".","r","c">>
a_t_gz   == <<"a",".","t",".","g","z">>
a_dot    == <<"a",".">>

MoveNames == {a_jpg, a_1_jpg, c_noext, rc_dot, a_t_gz, a_dot}

\* the n-th name the renaming loop tries for src
Candidate(src, n) == new_name(stem(src), n, suffix(src))

\* sets of names dest_dir may hold when src arrives: any mix of src and its
\* first three candidates, and src with its first n candidates
TakenNames(src) ==
    SUBSET ({src} \cup {Candidate(src, n) : n \in 1..3})
    \cup {{src} \cup {Candidate(src, n) : n \in 1..m} : m \in 4..MaxFill}

\* states of <target>/Others when src arrives: absent, a regular file, or a
\* directory holding files (src possibly being a directory there)
DestStates(src) ==
    {NoKids, (Others :> File(<<<< >>, Others>>))}
    \cup {(Others :> Dir([n \in S |-> File(<<Others, n>>)])) : S \in TakenNames(src)}
    \cup {(Others :> Dir(src :> Dir(NoKids)))}

InitMove ==
    \E src \in MoveNames : \E d \in DestStates(src) :
        Start("dir", (src :> File(<<<< >>, src>>)) @@ d,
              [NoMove EXCEPT !.src = src, !.dest = Others])

\* one call move_file(<target>/<src>, <target>/Others)
MoveFile(fault) ==
    /\ ~lastMove.called
    /\ LET m == move_file(top, lastMove.src, lastMove.dest, fault)
       IN  /\ top' = m.top
           /\ lastMove' = [lastMove EXCEPT !.called = TRUE, !.before = top,
                                           !.ret = m.ret, !.err = m.err]
    /\ UNCHANGED <<root, logfiles, handler, now, pc, dry, todo, runId, err,
                   top0, logfiles0, rerun, ext, cat>>

NextMove == \E fault \in Faults : MoveFile(fault)

SpecMove == InitMove /\ [][NextMove]_vars

-----------------------------------------------------------------------------
(* Vocabulary of the properties.                                           *)

Files(t)   == {n \in DOMAIN t : t[n].kind = "file"}
Folders(t) == {n \in DOMAIN t : t[n].kind = "dir"}

\* the paths, below the target and outside logs, at which a given regular
\* file (content included) is found
Places(t, node) ==
    {<<n>> : n \in {m \in DOMAIN t : t[m] = node}}
    \cup UNION {{<<d, k>> : k \in {j \in DOMAIN t[d].kids : t[d].kids[j] = node}} :
                d \in Folders(t) \ {Logs}}

\* the paths, below the target and outside logs, of all regular files
FilePlaces(t) ==
    {<<n>> : n \in Files(t)}
    \cup UNION {{<<d, k>> : k \in {j \in DOMAIN t[d].kids :
                                      t[d].kids[j].kind = "file"}} :
                d \in Folders(t) \ {Logs}}

IsPrefix(a, b) == Len(a) <= Len(b) /\ SubSeq(b, 1, Len(a)) = a

\* the positions, in any log file, of the records invocation run wrote
Records(run) ==
    UNION {{<<f, i>> : i \in {j \in DOMAIN logfiles[f] : logfiles[f][j].run = run}} :
           f \in DOMAIN logfiles}

RecordsOfKind(run, kind) ==
    {r \in Records(run) : logfiles[r[1]][r[2]].kind = kind}

\* the top-level file n of the snapshot t0 now sits in the folder of its category
InCategoryFolder(t, t0, n) ==
    LET c == get_category(suffix(n))
    IN  is_dir(t, c) /\ \E k \in DOMAIN t[c].kids : t[c].kids[k] = t0[n]

-----------------------------------------------------------------------------
(* Properties.                                                             *)

\* C1: while and after organize_directory runs with dry_run=True, every entry
\* the target held at the call is still there, unchanged (the N files at the
\* top level under their names, every folder with its content), nothing is
\* added at the top level but the logs folder, no category folder is created,
\* and the only log file added is the one of this invocation.
C1_DryRunChangesNothing ==
    (dry /\ pc \in {"scan", "done"}) =>
        /\ \A n \in DOMAIN top0 : n \in DOMAIN top /\ top[n] = top0[n]
        /\ DOMAIN top \ DOMAIN top0 \subseteq {Logs}
        /\ is_dir(top, Logs)
        /\ Logs \notin DOMAIN top0 => top[Logs].kids = NoKids
        /\ DOMAIN logfiles \ DOMAIN logfiles0 \subseteq {now}
        /\ RecordsOfKind(runId, "Moved") = {}

C1_Witness ==
    /\ dry /\ pc = "done"
    /\ Cardinality(Files(top0)) >= 2
    /\ Logs \notin DOMAIN top0 /\ Logs \in DOMAIN top
    /\ Categories \cap DOMAIN top = {}
    /\ Cardinality(RecordsOfKind(runId, "DryRun")) >= 2

\* C2: when a normal organize_directory call has returned, every regular file
\* the top level held at the call sits inside <target>/<get_category(its
\* extension)>/, and no regular file is left at the top level.
C2_AllFilesCategorised ==
    (~dry /\ pc = "done") =>
        /\ \A n \in Files(top0) : InCategoryFolder(top, top0, n)
        /\ Files(top) = {}

C2_Witness ==
    /\ ~dry /\ pc = "done"
    /\ {a_JPG, c_noext} \subseteq Files(top0)
    /\ Images \notin DOMAIN top0
    /\ a_JPG \in DOMAIN top[Images].kids
    /\ c_noext \in DOMAIN top[Others].kids

\* C3: a move_file(src, dest_dir) call that returns has moved src to
\* dest_dir/<name> when that name was free, and otherwise to
\* dest_dir/<stem>_k<suffix> for the least k >= 1 whose name was free; src is
\* gone from its place, the returned path holds the file, and what dest_dir
\* held is untouched.
C3_MoveFileTarget ==
    (lastMove.called /\ lastMove.err = "none") =>
        LET src    == lastMove.src
            dest   == lastMove.dest
            before == lastMove.before
            taken  == IF dest \in DOMAIN before THEN DOMAIN before[dest].kids ELSE {}
            ret    == lastMove.ret
        IN  /\ src \notin taken => ret = src
            /\ src \in taken =>
                 \E k \in 1..(Cardinality(taken) + 1) :
                    /\ ret = stem(src) \o <<"_">> \o Str(k) \o suffix(src)
                    /\ ret \notin taken
                    /\ \A j \in 1..(k - 1) :
                          stem(src) \o <<"_">> \o Str(j) \o suffix(src) \in taken
            /\ (src = a_jpg /\ taken = {a_jpg, a_1_jpg})
                 => ret = <<"a","_","2",".","j","p","g">>
            /\ (src = c_noext /\ taken = {c_noext}) => ret = <<"c","_","1">>
            /\ (src = rc_dot /\ taken = {rc_dot}) => ret = <<".","r","c","_","1">>
            /\ (src = a_t_gz /\ taken = {a_t_gz})
                 => ret = <<"a",".","t","_","1",".","g","z">>
            /\ src \notin DOMAIN top
            /\ is_dir(top, dest)
            /\ ret \in DOMAIN top[dest].kids
            /\ top[dest].kids[ret] = before[src]
            /\ \A n \in taken : n \in DOMAIN top[dest].kids
                                /\ top[dest].kids[n] = before[dest].kids[n]

C3_Witness ==
    /\ lastMove.called /\ lastMove.err = "none"
    /\ lastMove.src = a_jpg
    /\ is_dir(lastMove.before, Others)
    /\ Cardinality(DOMAIN lastMove.before[Others].kids) = 10
    /\ lastMove.ret = <<"a","_","1","0",".","j","p","g">>
    /\ a_jpg \notin DOMAIN top

C5_InvalidTargetRaises ==
    (root # "dir" /\ runId > 0) =>
        /\ pc = "failed"
        /\ err = "NotADirectoryError"
        /\ top = NoKids
        /\ logfiles = NoKids
        /\ handler = << >>
        /\ todo = {}

C5_Witness == root = "missing" /\ pc = "failed" /\ err = "NotADirectoryError"

C7_OnlyCompletionEvent ==
    (rerun /\ pc = "done") =>
        /\ top = top0
        /\ RecordsOfKind(runId, "Moved") = {}
        /\ Records(runId) = RecordsOfKind(runId, "Finished")
        /\ Cardinality(Records(runId)) = 1

\* C7 amended: a normal run directly after a completed normal run does not
\* fail, moves nothing and leaves every file where it is; the records it
\* writes are one "Started" record and, once it has returned, one "Finished"
\* record.
C7_RerunMovesNothing ==
    (rerun /\ pc # "idle") =>
        /\ pc \in {"scan", "done"}
        /\ top = top0
        /\ RecordsOfKind(runId, "Moved") = {}
        /\ RecordsOfKind(runId, "DryRun") = {}
        /\ Cardinality(RecordsOfKind(runId, "Started")) = 1
        /\ Cardinality(RecordsOfKind(runId, "Finished")) = (IF pc = "done" THEN 1 ELSE 0)
        /\ Cardinality(Records(runId)) = (IF pc = "done" THEN 2 ELSE 1)

C7_Witness ==
    /\ rerun /\ pc = "done" /\ runId = 2
    /\ Cardinality(RecordsOfKind(1, "Moved")) = 3
    /\ {Images, Documents, Others} \subseteq Folders(top)
    /\ Files(top) = {}

\* C8: no log file holds records of two invocations, and the records of one
\* invocation are all in one log file.
C8_OneLogFilePerInvocation ==
    /\ \A f \in DOMAIN logfiles : \A i, j \in DOMAIN logfiles[f] :
          logfiles[f][i].run = logfiles[f][j].run
    /\ \A r \in 1..runId : \A a, b \in Records(r) : a[1] = b[1]

\* C9: get_category returns, for any extension string, the one category of
\* FILE_TYPES whose list holds the lowered string, and Others when none
\* does; every spelling of the string in upper and lower case resolves alike.
C9_CategoryOfExtension ==
    (cat # << >>) =>
        LET holders == {i \in DOMAIN FILE_TYPES :
                          lower(ext) \in Range(FILE_TYPES[i].exts)}
        IN  /\ cat \in Categories
            /\ holders # {} => holders = {CHOOSE i \in holders : TRUE}
                               /\ \A i \in holders : cat = FILE_TYPES[i].category
            /\ holders = {} => cat = Others
            /\ \A v \in CaseVariants(ext) : get_category(v) = cat

C9_Witness == ext = <<".","J","p","G">> /\ cat = Images

\* C10: when move_file fails for an entry of a normal run, the run is over
\* with that error: no step of the loop can follow, no "Finished" record is
\* written, every file visited before sits in its category folder, and the
\* failing file and every file not yet visited are at the top level as they
\* were at the call.
C10_FailureStopsTheRun ==
    (~dry /\ lastMove.called /\ lastMove.err # "none") =>
        /\ pc = "failed"
        /\ err = lastMove.err
        /\ ~ENABLED (\E e \in todo, fault \in Faults : Step(e, fault))
        /\ ~ENABLED Finish
        /\ RecordsOfKind(runId, "Finished") = {}
        /\ \A n \in Files(top0) \ (todo \cup {lastMove.src}) :
              <<n>> \notin Places(top, top0[n]) /\ InCategoryFolder(top, top0, n)
        /\ \A n \in (todo \cup {lastMove.src}) \cap Files(top0) :
              n \in DOMAIN top /\ top[n] = top0[n]

C10_Witness ==
    /\ ~dry /\ pc = "failed" /\ lastMove.err = "OSError"
    /\ a_jpg \in Files(top0) /\ a_jpg \notin DOMAIN top
    /\ lastMove.src = b_txt /\ b_txt \in Files(top)
    /\ c_noext \in todo /\ c_noext \in Files(top)
    /\ Cardinality(RecordsOfKind(runId, "Moved")) = 1

=============================================================================
